---- MODULE Spec2Model ----
(***************************************************************************)
(* A model of skribo's HarfBuzz shaping back-end (src/hb_layout.rs):       *)
(* layout_run and layout_fragment, the HbFace resource they own, and the   *)
(* glyph extraction loop with its f32 scaling and advance accumulation.    *)
(***************************************************************************)
EXTENDS Integers, Sequences, FiniteSets, TLC

(***************************************************************************)
(* f32 arithmetic.  A finite value is sign * m * 2^e with m = 0 (zero) or  *)
(* 2^23 <= m < 2^24 (binary32's 24-bit significand); every operation       *)
(* rounds to nearest, ties to even, as the hardware does.  Infinities and  *)
(* NaN are separate kinds.  The exponent is not bounded: the model's       *)
(* inputs stay far inside binary32's normal range, so overflow to infinity *)
(* and gradual underflow are not modelled.                                 *)
(***************************************************************************)
Pow2(n) == 2 ^ n

MantBits == 24

Hidden == Pow2(MantBits - 1)

MantLimit == Pow2(MantBits)

Xor(a, b) == IF a = b THEN 0 ELSE 1

F32Zero(s) == [k |-> "num", s |-> s, m |-> 0, e |-> 0]

F32Inf(s) == [k |-> "inf", s |-> s, m |-> 0, e |-> 0]

F32NaN == [k |-> "nan", s |-> 0, m |-> 0, e |-> 0]

IsZero(a) == a.k = "num" /\ a.m = 0

\* Number of binary digits of a positive integer.
RECURSIVE BitLen(_)
BitLen(n) == IF n = 0 THEN 0 ELSE 1 + BitLen(n \div 2)

\* Round sig * 2^e (sig > 0, plus a sticky flag for discarded nonzero bits
\* below sig) to 24 significant bits, nearest-even.
RoundPack(s, sig, e, sticky) ==
    LET n == BitLen(sig) IN
    IF n <= MantBits
    THEN [k |-> "num", s |-> s, m |-> sig * Pow2(MantBits - n), e |-> e - (MantBits - n)]
    ELSE LET sh   == n - MantBits
             q    == sig \div Pow2(sh)
             rem  == sig % Pow2(sh)
             half == Pow2(sh - 1)
             up   == \/ rem > half
                     \/ rem = half /\ sticky
                     \/ rem = half /\ ~sticky /\ q % 2 = 1
             r    == IF up THEN q + 1 ELSE q
         IN IF r = MantLimit
            THEN [k |-> "num", s |-> s, m |-> Hidden, e |-> e + sh + 1]
            ELSE [k |-> "num", s |-> s, m |-> r, e |-> e + sh]

\* `i as f32` / Vector2D::to_f32 on an i32 or u32 component.
ToF32(i) ==
    IF i = 0 THEN F32Zero(0)
    ELSE RoundPack(IF i < 0 THEN 1 ELSE 0, IF i < 0 THEN -i ELSE i, 0, FALSE)

\* The 48-bit product of two 24-bit significands as <<hi, lo>>, hi*2^24 + lo,
\* from 12-bit limbs so that no intermediate value exceeds 31 bits.
MulWide(ma, mb) ==
    LET L   == Pow2(12)
        a1  == ma \div L
        a0  == ma % L
        b1  == mb \div L
        b0  == mb % L
        mid == a1 * b0 + a0 * b1
        t   == a0 * b0 + (mid % L) * L
    IN << a1 * b1 + (mid \div L) + (t \div MantLimit), t % MantLimit >>

F32Mul(a, b) ==
    IF a.k = "nan" \/ b.k = "nan" THEN F32NaN
    ELSE IF (a.k = "inf" /\ IsZero(b)) \/ (b.k = "inf" /\ IsZero(a)) THEN F32NaN
    ELSE IF a.k = "inf" \/ b.k = "inf" THEN F32Inf(Xor(a.s, b.s))
    ELSE IF IsZero(a) \/ IsZero(b) THEN F32Zero(Xor(a.s, b.s))
    ELSE LET p  == MulWide(a.m, b.m)
             hi == p[1]
             lo == p[2]
         IN \* hi has 23 or 24 bits; lo holds the 24 bits below it.
            IF hi >= Hidden
            THEN LET up == lo > Hidden \/ (lo = Hidden /\ hi % 2 = 1)
                     r  == IF up THEN hi + 1 ELSE hi
                 IN IF r = MantLimit
                    THEN [k |-> "num", s |-> Xor(a.s, b.s), m |-> Hidden, e |-> a.e + b.e + 25]
                    ELSE [k |-> "num", s |-> Xor(a.s, b.s), m |-> r, e |-> a.e + b.e + 24]
            ELSE LET q   == hi * 2 + (lo \div Hidden)
                     rem == lo % Hidden
                     hf  == Hidden \div 2
                     up  == rem > hf \/ (rem = hf /\ q % 2 = 1)
                     r   == IF up THEN q + 1 ELSE q
                 IN IF r = MantLimit
                    THEN [k |-> "num", s |-> Xor(a.s, b.s), m |-> Hidden, e |-> a.e + b.e + 24]
                    ELSE [k |-> "num", s |-> Xor(a.s, b.s), m |-> r, e |-> a.e + b.e + 23]

\* Long division: <<floor(rem0 * 2^n / d) + q0 * 2^n, remainder>>.
RECURSIVE DivBits(_, _, _, _)
DivBits(q, rem, d, n) ==
    IF n = 0 THEN << q, rem >>
    ELSE LET r2 == rem * 2
         IN IF r2 >= d THEN DivBits(q * 2 + 1, r2 - d, d, n - 1)
                       ELSE DivBits(q * 2, r2, d, n - 1)

F32Div(a, b) ==
    IF a.k = "nan" \/ b.k = "nan" THEN F32NaN
    ELSE IF a.k = "inf" /\ b.k = "inf" THEN F32NaN
    ELSE IF IsZero(a) /\ IsZero(b) THEN F32NaN
    ELSE IF a.k = "inf" \/ IsZero(b) THEN F32Inf(Xor(a.s, b.s))
    ELSE IF b.k = "inf" \/ IsZero(a) THEN F32Zero(Xor(a.s, b.s))
    ELSE LET d == DivBits(a.m \div b.m, a.m % b.m, b.m, MantBits + 1)
         IN RoundPack(Xor(a.s, b.s), d[1], a.e - b.e - (MantBits + 1), d[2] # 0)

\* Shift right by n keeping a sticky low bit ("jamming").
ShiftJam(x, n) ==
    IF n = 0 THEN x
    ELSE IF n >= 31 THEN (IF x # 0 THEN 1 ELSE 0)
    ELSE LET q == x \div Pow2(n)
         IN IF x % Pow2(n) # 0 /\ q % 2 = 0 THEN q + 1 ELSE q

\* Magnitude addition/subtraction of finite nonzero a, b with a.e >= b.e,
\* carried out with three guard bits.
AddOrdered(a, b) ==
    LET A == a.m * 8
        B == ShiftJam(b.m * 8, a.e - b.e)
        e == a.e - 3
    IN IF a.s = b.s
       THEN RoundPack(a.s, A + B, e, FALSE)
       ELSE IF A = B THEN F32Zero(0)
       ELSE IF A > B THEN RoundPack(a.s, A - B, e, FALSE)
       ELSE RoundPack(b.s, B - A, e, FALSE)

F32Add(a, b) ==
    IF a.k = "nan" \/ b.k = "nan" THEN F32NaN
    ELSE IF a.k = "inf" /\ b.k = "inf" THEN (IF a.s = b.s THEN a ELSE F32NaN)
    ELSE IF a.k = "inf" THEN a
    ELSE IF b.k = "inf" THEN b
    ELSE IF IsZero(a) /\ IsZero(b) THEN F32Zero(IF a.s = 1 /\ b.s = 1 THEN 1 ELSE 0)
    ELSE IF IsZero(a) THEN b
    ELSE IF IsZero(b) THEN a
    ELSE IF a.e >= b.e THEN AddOrdered(a, b) ELSE AddOrdered(b, a)


(***************************************************************************)
(* Vector2D<f32> and the per-glyph expressions of the extraction loop.     *)
(***************************************************************************)
VecZero == [x |-> F32Zero(0), y |-> F32Zero(0)]

VecToF32(ix, iy) == [x |-> ToF32(ix), y |-> ToF32(iy)]

VecScale(v, sc) == [x |-> F32Mul(v.x, sc), y |-> F32Mul(v.y, sc)]

VecAdd(a, b) == [x |-> F32Add(a.x, b.x), y |-> F32Add(a.y, b.y)]

\* Mutation: the quotient taken the wrong way round.
Scale_Inverted(sz, upem) == F32Div(ToF32(upem), sz)

\* let scale = style.size / (font.font.metrics().units_per_em as f32);
Scale(sz, upem) == F32Div(sz, ToF32(upem))

\* let adv_f = Vector2D::new(pos.x_advance, pos.y_advance).to_f32() * scale;
AdvF(pos, sc) == VecScale(VecToF32(pos.x_advance, pos.y_advance), sc)

\* let offset = Vector2D::new(pos.x_offset, pos.y_offset).to_f32() * scale;
OffsetF(pos, sc) == VecScale(VecToF32(pos.x_offset, pos.y_offset), sc)

\* Mutation: the glyph positioned after its own advance has been added.
StoredOffset_AfterAdvance(total, adv, off) == VecAdd(VecAdd(total, adv), off)

\* offset: total_adv + offset
StoredOffset(total, adv, off) == VecAdd(total, off)

\* Mutation: the total overwritten instead of accumulated.
NextTotal_Overwrite(total, adv) == adv

\* total_adv += adv_f;
NextTotal(total, adv) == VecAdd(total, adv)

RECURSIVE BitAnd(_, _)
BitAnd(a, b) ==
    IF a = 0 \/ b = 0 THEN 0
    ELSE (a % 2) * (b % 2) + 2 * BitAnd(a \div 2, b \div 2)

HB_GLYPH_FLAG_UNSAFE_TO_BREAK == 1

\* Mutation: any flag bit taken for the unsafe-to-break bit.
UnsafeToBreak_AnyFlag(flags) == flags # 0

\* let unsafe_to_break = flags & HB_GLYPH_FLAG_UNSAFE_TO_BREAK != 0;
UnsafeToBreak(flags) == BitAnd(flags, HB_GLYPH_FLAG_UNSAFE_TO_BREAK) # 0

Min(a, b) == IF a <= b THEN a ELSE b

\* Mutation: the last pair left out.
ZipLen_DropLast(n_info, n_pos) ==
    IF Min(n_info, n_pos) > 0 THEN Min(n_info, n_pos) - 1 ELSE 0

\* glyph_infos.iter().zip(glyph_positions.iter()) yields this many pairs.
ZipLen(n_info, n_pos) == Min(n_info, n_pos)

(***************************************************************************)
(* Bounds and input domains.                                               *)
(***************************************************************************)
MaxGlyphs == 3

\* text.len() values: the empty text and a three-byte one.
TextLens == {0, 3}

\* style.size values (as integers, converted to f32).
Sizes == {10, 12}

\* font.font.metrics().units_per_em values; 0 is a malformed font.
UnitsPerEm == {0, 1000, 1200, 2048}

HB_SCRIPT_DEVANAGARI == "Deva"

Scripts == {HB_SCRIPT_DEVANAGARI, "Latn"}

\* What the shaping engine may put in one buffer slot: a glyph-info entry
\* (codepoint = glyph id, cluster, flags as hb_glyph_info_get_glyph_flags
\* returns them) and a glyph-position entry in font design units.
GlyphInfo(cp, cl, fl) == [codepoint |-> cp, cluster |-> cl, flags |-> fl]

GlyphPos(xa, ya, xo, yo) ==
    [x_advance |-> xa, y_advance |-> ya, x_offset |-> xo, y_offset |-> yo]

Slots(upem) ==
    { << GlyphInfo(1, 0, 0), GlyphPos(1, 0, 0, 0) >>,
      << GlyphInfo(2, 0, 1), GlyphPos(5, 0, -3, 7) >>,
      << GlyphInfo(3, 1, 2), GlyphPos(upem, 0, 0, 0) >>,
      << GlyphInfo(4, 1, 3), GlyphPos(0, -4, 2, 0) >> }

SeqsUpTo(S, n) == UNION { [1..k -> S] : k \in 0..n }

Prefix(sq, n) == [i \in 1..n |-> sq[i]]

ReportedLens(n) ==
    {<< n, n >>} \cup (IF n > 0 THEN {<< n - 1, n >>, << n, n - 1 >>} ELSE {})

\* The two arrays the engine exposes after hb_shape.  An empty text leaves
\* the buffer with no glyphs and its arrays never allocated (null pointers).
\* The two reported lengths are not tied to each other by this code, so one
\* array may be reported one entry shorter than the other.
EngineOutputs(len, upem) ==
    IF len = 0
    THEN { [infos |-> << >>, positions |-> << >>, null |-> TRUE] }
    ELSE UNION { { [infos     |-> Prefix([i \in 1..Len(g) |-> g[i][1]], l[1]),
                    positions |-> Prefix([i \in 1..Len(g) |-> g[i][2]], l[2]),
                    null      |-> FALSE] : l \in ReportedLens(Len(g)) } :
                 g \in SeqsUpTo(Slots(upem), MaxGlyphs) }


(***************************************************************************)
(* State of one call of layout_run or layout_fragment and of its caller.   *)
(***************************************************************************)
VARIABLES
    entry,           \* which entry point is called
    text_len,        \* text.len(), the byte length of the text
    size,            \* style.size
    units_per_em,    \* font.font.metrics().units_per_em
    font_data_ok,    \* whether font.font.copy_font_data() is Some
    script,          \* layout_fragment's script parameter
    pc,              \* position in the function body / in the caller
    b,               \* the harfbuzz Buffer
    hb_face,         \* the HbFace: who owns it and the native handle's counts
    hb_font,         \* the transient hb_font_t: creations and destructions
    shape_calls,     \* invocations of hb_shape
    engine,          \* what the engine left in the buffer
    glyph_infos,     \* the slice built from hb_buffer_get_glyph_infos
    glyph_positions, \* the slice built from hb_buffer_get_glyph_positions
    scale,
    total_adv,
    glyphs,
    idx,             \* pairs the zip iterator has yielded so far
    reads,           \* indices read from each array
    result,          \* the value returned to the caller
    log              \* native calls and reads, in program order

inputs == << entry, text_len, size, units_per_em, font_data_ok, script >>

locals == << glyph_infos, glyph_positions, scale, total_adv, glyphs, idx, reads >>

vars == << inputs, pc, b, hb_face, hb_font, shape_calls, engine, locals, result, log >>

None == "none"

NoBuffer ==
    [state |-> None, funcs |-> FALSE, text |-> -1, direction |-> None,
     script |-> None, language |-> None]

NoFace == [owner |-> None, created |-> 0, destroyed |-> 0, blob |-> None]

NoFont == [created |-> 0, destroyed |-> 0]

NoOutput == [infos |-> << >>, positions |-> << >>, null |-> FALSE]

NoResult == [kind |-> None]

Init ==
    /\ entry \in {"layout_run", "layout_fragment"}
    /\ text_len \in TextLens
    /\ size \in {ToF32(sz) : sz \in Sizes}
    /\ units_per_em \in UnitsPerEm
    /\ font_data_ok \in BOOLEAN
    /\ script \in (IF entry = "layout_fragment" THEN Scripts ELSE {None})
    /\ pc = "buffer_new"
    /\ b = NoBuffer
    /\ hb_face = NoFace
    /\ hb_font = NoFont
    /\ shape_calls = 0
    /\ engine = NoOutput
    /\ glyph_infos = << >>
    /\ glyph_positions = << >>
    /\ scale = F32Zero(0)
    /\ total_adv = VecZero
    /\ glyphs = << >>
    /\ idx = 0
    /\ reads = [infos |-> {}, positions |-> {}]
    /\ result = NoResult
    /\ log = << >>

\* let mut b = Buffer::new();
BufferNew ==
    /\ pc = "buffer_new"
    /\ b' = [b EXCEPT !.state = "alive"]
    /\ log' = Append(log, "buffer_create")
    /\ pc' = "install_unicode_funcs"
    /\ UNCHANGED << inputs, hb_face, hb_font, shape_calls, engine, locals, result >>

\* install_unicode_funcs(&mut b);
InstallUnicodeFuncs ==
    /\ pc = "install_unicode_funcs"
    /\ b' = [b EXCEPT !.funcs = TRUE]
    /\ log' = Append(log, "install_unicode_funcs")
    /\ pc' = "add_str"
    /\ UNCHANGED << inputs, hb_face, hb_font, shape_calls, engine, locals, result >>

\* b.add_str(text);
AddStr ==
    /\ pc = "add_str"
    /\ b' = [b EXCEPT !.text = text_len]
    /\ log' = Append(log, "add_str")
    /\ pc' = "set_direction"
    /\ UNCHANGED << inputs, hb_face, hb_font, shape_calls, engine, locals, result >>

\* b.set_direction(Direction::LTR);
SetDirection ==
    /\ pc = "set_direction"
    /\ b' = [b EXCEPT !.direction = "LTR"]
    /\ log' = Append(log, "set_direction")
    /\ pc' = "set_script"
    /\ UNCHANGED << inputs, hb_face, hb_font, shape_calls, engine, locals, result >>

\* The script tag each entry point puts on the buffer.
ScriptUsed == IF entry = "layout_run" THEN HB_SCRIPT_DEVANAGARI ELSE script

\* b.set_script(HB_SCRIPT_DEVANAGARI); / b.set_script(script);
SetScript ==
    /\ pc = "set_script"
    /\ b' = [b EXCEPT !.script = ScriptUsed]
    /\ log' = Append(log, "set_script")
    /\ pc' = "set_language"
    /\ UNCHANGED << inputs, hb_face, hb_font, shape_calls, engine, locals, result >>

\* b.set_language(Language::from_string("en_US"));
SetLanguage ==
    /\ pc = "set_language"
    /\ b' = [b EXCEPT !.language = "en_US"]
    /\ log' = Append(log, "set_language")
    /\ pc' = "face_new"
    /\ UNCHANGED << inputs, hb_face, hb_font, shape_calls, engine, locals, result >>

\* Buffer's Drop: hb_buffer_destroy.
DropBuffer(buf) == [buf EXCEPT !.state = "destroyed"]

\* Mutation: an HbFace without its Drop impl, the native handle never destroyed.
DropFace_Leak(f) == [f EXCEPT !.owner = "dropped"]

\* impl Drop for HbFace: hb_face_destroy(self.hb_face), then the blob field.
DropFace(f) ==
    [f EXCEPT !.owner = "dropped", !.destroyed = f.destroyed + 1, !.blob = "released"]

\* Mutation: the native face created before the font data is looked at, and
\* left behind by the panic.
HbFaceNew_CreateBeforeCheck ==
    /\ pc = "face_new"
    /\ hb_face' = [hb_face EXCEPT !.owner = IF font_data_ok THEN "local" ELSE None,
                                  !.created = hb_face.created + 1,
                                  !.blob = IF font_data_ok THEN "held" ELSE None]
    /\ IF font_data_ok
       THEN /\ log' = Append(log, "face_create")
            /\ pc' = "font_create"
            /\ b' = b
       ELSE /\ b' = DropBuffer(b)
            /\ log' = log \o << "face_create", "panic", "buffer_destroy" >>
            /\ pc' = "panicked"
    /\ UNCHANGED << inputs, hb_font, shape_calls, engine, locals, result >>

\* let hb_face = HbFace::new(font);  -- copy_font_data().expect(..) panics
\* when the font has no data; unwinding then drops the only live local, b.
HbFaceNew ==
    /\ pc = "face_new"
    /\ IF font_data_ok
       THEN /\ hb_face' = [hb_face EXCEPT !.owner = "local",
                                          !.created = hb_face.created + 1,
                                          !.blob = "held"]
            /\ log' = Append(log, "face_create")
            /\ pc' = "font_create"
            /\ b' = b
       ELSE /\ hb_face' = hb_face
            /\ b' = DropBuffer(b)
            /\ log' = log \o << "panic", "buffer_destroy" >>
            /\ pc' = "panicked"
    /\ UNCHANGED << inputs, hb_font, shape_calls, engine, locals, result >>

\* let hb_font = hb_font_create(hb_face.hb_face);
FontCreate ==
    /\ pc = "font_create"
    /\ hb_font' = [hb_font EXCEPT !.created = hb_font.created + 1]
    /\ log' = Append(log, "font_create")
    /\ pc' = "shape"
    /\ UNCHANGED << inputs, b, hb_face, shape_calls, engine, locals, result >>

\* hb_shape(hb_font, b.as_ptr(), std::ptr::null(), 0);
Shape ==
    /\ pc = "shape"
    /\ engine' \in EngineOutputs(b.text, units_per_em)
    /\ shape_calls' = shape_calls + 1
    /\ log' = Append(log, "shape")
    /\ pc' = "font_destroy"
    /\ UNCHANGED << inputs, b, hb_face, hb_font, locals, result >>

\* Mutation: the transient font never destroyed.
FontDestroy_Missing ==
    /\ pc = "font_destroy"
    /\ pc' = "get_infos"
    /\ UNCHANGED << inputs, b, hb_face, hb_font, shape_calls, engine, locals, result, log >>

\* hb_font_destroy(hb_font);
FontDestroy ==
    /\ pc = "font_destroy"
    /\ hb_font' = [hb_font EXCEPT !.destroyed = hb_font.destroyed + 1]
    /\ log' = Append(log, "font_destroy")
    /\ pc' = "get_infos"
    /\ UNCHANGED << inputs, b, hb_face, shape_calls, engine, locals, result >>

\* std::slice::from_raw_parts(ptr, n): the slice of the n reported entries.
\* A null ptr violates the function's safety contract even for n = 0
\* (undefined behaviour): builds without the precondition check carry on with
\* an empty slice, builds with it abort the process.
FromRawParts(arr, null) ==
    IF null
    THEN {[abort |-> FALSE, slice |-> << >>], [abort |-> TRUE, slice |-> << >>]}
    ELSE {[abort |-> FALSE, slice |-> arr]}

\* let glyph_infos = hb_buffer_get_glyph_infos(b.as_ptr(), &mut n_glyph);
\* let glyph_infos = std::slice::from_raw_parts(glyph_infos, n_glyph as usize);
GetGlyphInfos ==
    /\ pc = "get_infos"
    /\ \E sl \in FromRawParts(engine.infos, engine.null) :
          IF sl.abort
          THEN /\ pc' = "aborted"
               /\ log' = log \o << "get_infos", "abort" >>
               /\ UNCHANGED glyph_infos
          ELSE /\ glyph_infos' = sl.slice
               /\ log' = Append(log, "get_infos")
               /\ pc' = "get_positions"
    /\ UNCHANGED << inputs, b, hb_face, hb_font, shape_calls, engine, glyph_positions,
                    scale, total_adv, glyphs, idx, reads, result >>

\* let glyph_positions = hb_buffer_get_glyph_positions(b.as_ptr(), &mut n_glyph_pos);
\* let glyph_positions = std::slice::from_raw_parts(glyph_positions, n_glyph_pos as usize);
GetGlyphPositions ==
    /\ pc = "get_positions"
    /\ \E sl \in FromRawParts(engine.positions, engine.null) :
          IF sl.abort
          THEN /\ pc' = "aborted"
               /\ log' = log \o << "get_positions", "abort" >>
               /\ UNCHANGED glyph_positions
          ELSE /\ glyph_positions' = sl.slice
               /\ log' = Append(log, "get_positions")
               /\ pc' = "loop_init"
    /\ UNCHANGED << inputs, b, hb_face, hb_font, shape_calls, engine, glyph_infos,
                    scale, total_adv, glyphs, idx, reads, result >>

\* let mut total_adv = Vector2D::zero(); let mut glyphs = Vec::new();
\* let scale = style.size / (font.font.metrics().units_per_em as f32);
LoopInit ==
    /\ pc = "loop_init"
    /\ total_adv' = VecZero
    /\ glyphs' = << >>
    /\ scale' = Scale(size, units_per_em)
    /\ pc' = "loop"
    /\ UNCHANGED << inputs, b, hb_face, hb_font, shape_calls, engine, glyph_infos,
                    glyph_positions, idx, reads, result, log >>

\* The Glyph / FragmentGlyph pushed for one (glyph, pos) pair.
MakeGlyph(glyph, pos, sc, total) ==
    IF entry = "layout_run"
    THEN [font     |-> "font",
          glyph_id |-> glyph.codepoint,
          offset   |-> StoredOffset(total, AdvF(pos, sc), OffsetF(pos, sc))]
    ELSE [cluster  |-> glyph.cluster,
          advance  |-> AdvF(pos, sc),
          glyph_id |-> glyph.codepoint,
          offset   |-> StoredOffset(total, AdvF(pos, sc), OffsetF(pos, sc)),
          unsafe_to_break |-> UnsafeToBreak(glyph.flags)]

\* One iteration of for (glyph, pos) in glyph_infos.iter().zip(glyph_positions.iter()).
LoopIter ==
    /\ pc = "loop"
    /\ idx < ZipLen(Len(glyph_infos), Len(glyph_positions))
    /\ LET glyph == glyph_infos[idx + 1]
           pos   == glyph_positions[idx + 1]
       IN /\ glyphs' = Append(glyphs, MakeGlyph(glyph, pos, scale, total_adv))
          /\ total_adv' = NextTotal(total_adv, AdvF(pos, scale))
    /\ reads' = [infos |-> reads.infos \cup {idx + 1},
                 positions |-> reads.positions \cup {idx + 1}]
    /\ idx' = idx + 1
    /\ log' = Append(log, "read")
    /\ UNCHANGED << inputs, pc, b, hb_face, hb_font, shape_calls, engine, glyph_infos,
                    glyph_positions, scale, result >>

\* The zip iterator is exhausted: the function builds its result and its
\* locals go out of scope in reverse order of declaration.  layout_run drops
\* hb_face, then b; layout_fragment moves hb_face into the fragment and drops b.
Return ==
    /\ pc = "loop"
    /\ idx >= ZipLen(Len(glyph_infos), Len(glyph_positions))
    /\ IF entry = "layout_run"
       THEN /\ result' = [kind |-> "Layout", size |-> size, glyphs |-> glyphs, advance |-> total_adv]
            /\ hb_face' = DropFace(hb_face)
            /\ log' = log \o << "face_destroy", "buffer_destroy" >>
       ELSE /\ result' = [kind |-> "LayoutFragment", substr_len |-> text_len, script |-> script, glyphs |-> glyphs,
                          advance |-> total_adv, hb_face |-> "hb_face", font |-> "font"]
            /\ hb_face' = [hb_face EXCEPT !.owner = "fragment"]
            /\ log' = Append(log, "buffer_destroy")
    /\ b' = DropBuffer(b)
    /\ pc' = "returned"
    /\ UNCHANGED << inputs, hb_font, shape_calls, engine, locals >>

\* The caller lets go of the returned value.  A LayoutFragment drops the
\* HbFace it owns; a Layout owns no native handle.
DropResult ==
    /\ pc = "returned"
    /\ hb_face' = IF hb_face.owner = "fragment" THEN DropFace(hb_face) ELSE hb_face
    /\ log' = IF hb_face.owner = "fragment" THEN Append(log, "face_destroy") ELSE log
    /\ pc' = "dropped"
    /\ UNCHANGED << inputs, b, hb_font, shape_calls, engine, locals, result >>

Next ==
    \/ BufferNew
    \/ InstallUnicodeFuncs
    \/ AddStr
    \/ SetDirection
    \/ SetScript
    \/ SetLanguage
    \/ HbFaceNew
    \/ FontCreate
    \/ Shape
    \/ FontDestroy
    \/ GetGlyphInfos
    \/ GetGlyphPositions
    \/ LoopInit
    \/ LoopIter
    \/ Return
    \/ DropResult

Spec == Init /\ [][Next]_vars

(***************************************************************************)
(* Vocabulary of the properties.                                           *)
(***************************************************************************)
\* The call has ended, one way or another.
Ended == pc \in {"returned", "dropped", "panicked", "aborted"}

Returned == pc \in {"returned", "dropped"}

\* The glyph records built so far: the loop's vector, which the result carries.
Built == IF Returned THEN result.glyphs ELSE glyphs

\* The scalar the claims call scale, from the inputs.
ClaimScale == F32Div(size, ToF32(units_per_em))

\* The pen positions << P_0, ..., P_k >>: P_0 is zero and P_j is
\* P_{j-1} (+) fl(scale*a_j), the scaled advances accumulated left to right.
RECURSIVE PenPositions(_, _)
PenPositions(k, sc) ==
    IF k = 0 THEN << VecZero >>
    ELSE LET p == PenPositions(k - 1, sc)
         IN Append(p, VecAdd(p[k], AdvF(engine.positions[k], sc)))

\* a_1 + ... + a_k in font design units, per axis.
RECURSIVE SumRawAdv(_)
SumRawAdv(k) ==
    IF k = 0 THEN [x |-> 0, y |-> 0]
    ELSE [x |-> SumRawAdv(k - 1).x + engine.positions[k].x_advance,
          y |-> SumRawAdv(k - 1).y + engine.positions[k].y_advance]

\* scale*(a_1 + ... + a_{i-1}) + scale*o_i, the factored form.
FactoredOffset(i) ==
    LET sc  == ClaimScale
        raw == SumRawAdv(i - 1)
    IN VecAdd(VecScale(VecToF32(raw.x, raw.y), sc), OffsetF(engine.positions[i], sc))

\* C1 as stated, for fonts with units_per_em > 0: every stored offset is
\* scale*(a_0 + ... + a_{i-1}) + scale*o_i.
C1_FactoredOffsetBeforeAdvance ==
    units_per_em > 0 =>
        \A i \in 1..Len(Built) : Built[i].offset = FactoredOffset(i)

\* C1 (amended): in layout_run and layout_fragment alike, the offset stored
\* for glyph i is the pen position before glyph i's own advance is added, i.e.
\* the individually scaled advances of the glyphs before it, summed left to
\* right in f32 from zero, plus glyph i's own scaled offset; the first glyph's
\* stored offset is its own scaled offset.
C1_OffsetBeforeAdvance ==
    LET sc  == ClaimScale
        pen == PenPositions(Len(Built), sc)
    IN /\ \A i \in 1..Len(Built) :
             Built[i].offset = VecAdd(pen[i], OffsetF(engine.positions[i], sc))
       /\ Len(Built) >= 1 => Built[1].offset = OffsetF(engine.positions[1], sc)

\* A returned run of three glyphs, from each entry point's shape, whose third
\* offset differs from the factored form although it is the pen position.
C1_Witness ==
    /\ pc = "returned"
    /\ Len(result.glyphs) = 3
    /\ units_per_em = 1000
    /\ result.glyphs[3].offset # FactoredOffset(3)
    /\ result.glyphs[3].offset # OffsetF(engine.positions[3], ClaimScale)

\* Sum of the advance fields of the first k FragmentGlyphs.
RECURSIVE SumAdvanceFields(_, _)
SumAdvanceFields(gs, k) ==
    IF k = 0 THEN VecZero ELSE VecAdd(SumAdvanceFields(gs, k - 1), gs[k].advance)

\* C2: at every loop iteration the running total is the sum of the scaled
\* advances of the glyphs already pushed; a returned fragment's advance is the
\* sum of its FragmentGlyphs' advance fields, and layout_run returns the same
\* total as Layout.advance.
C2_AdvanceAccumulation ==
    LET n   == Len(Built)
        sum == PenPositions(n, ClaimScale)[n + 1]
    IN /\ pc = "loop" =>
             /\ total_adv = sum
             /\ entry = "layout_fragment" => total_adv = SumAdvanceFields(glyphs, n)
       /\ Returned =>
             /\ result.advance = sum
             /\ result.kind = "LayoutFragment" =>
                   result.advance = SumAdvanceFields(result.glyphs, n)

\* A returned fragment of three glyphs with a nonzero finite total advance.
C2_Witness ==
    /\ pc = "returned"
    /\ result.kind = "LayoutFragment"
    /\ Len(result.glyphs) = 3
    /\ result.advance.x.k = "num"
    /\ result.advance.x.m # 0
    /\ result.advance # result.glyphs[3].advance

\* C3: in layout_fragment, glyph i is unsafe_to_break exactly when info[i]'s
\* flags have the unsafe-to-break bit (bit 0) set, whatever the other bits and
\* the other glyphs' flags are.
C3_BreakSafety ==
    entry = "layout_fragment" =>
        \A i \in 1..Len(Built) :
            Built[i].unsafe_to_break <=> (engine.infos[i].flags % 2 = 1)

\* A returned fragment holding a glyph with only another flag bit set (safe)
\* next to one with both bits set (unsafe).
C3_Witness ==
    /\ pc = "returned"
    /\ result.kind = "LayoutFragment"
    /\ \E i, j \in 1..Len(result.glyphs) :
          /\ engine.infos[i].flags = 2 /\ ~result.glyphs[i].unsafe_to_break
          /\ engine.infos[j].flags = 3 /\ result.glyphs[j].unsafe_to_break

\* C4: when the text is empty, a call on a well-formed font (data present,
\* units_per_em > 0) ends by returning an empty glyph sequence and a zero
\* advance (and substr_len = 0 from layout_fragment).
C4_EmptyInput ==
    (text_len = 0 /\ font_data_ok /\ units_per_em > 0 /\ Ended) =>
        /\ result.kind # None
        /\ result.glyphs = << >>
        /\ result.advance = VecZero
        /\ result.kind = "LayoutFragment" => result.substr_len = 0

\* What does hold of every fragment that is returned: substr_len is the byte
\* length of the text, whatever the engine produced.
SubstrLenIsTextLen ==
    (Returned /\ result.kind = "LayoutFragment") => result.substr_len = text_len

PreFace ==
    {"buffer_new", "install_unicode_funcs", "add_str", "set_direction",
     "set_script", "set_language", "face_new"}

\* Indices of an event in the log.
At(ev) == {i \in 1..Len(log) : log[i] = ev}

\* C5: a call creates at most one native face handle, and exactly one once
\* HbFace::new has returned; the handle is never released twice and never
\* while its owner is alive; layout_fragment's handle is released when, and
\* only when, the returned fragment is dropped; layout_run's is released at
\* the end of the call, after every glyph has been read.
C5_FaceLifetime ==
    /\ hb_face.created = (IF pc \in PreFace \cup {"panicked"} THEN 0 ELSE 1)
    /\ hb_face.destroyed <= 1
    /\ hb_face.destroyed = Cardinality(At("face_destroy"))
    /\ hb_face.owner \in {"local", "fragment"} => hb_face.destroyed = 0
    /\ entry = "layout_fragment" => (hb_face.destroyed = 1 <=> pc = "dropped")
    /\ entry = "layout_run" => (hb_face.destroyed = 1 <=> Returned)
    /\ \A d \in At("face_destroy") : \A r \in At("read") \cup At("shape") : r < d
    /\ Returned => Cardinality(At("read")) = Len(result.glyphs)

\* A dropped fragment of several glyphs whose handle has been released once.
C5_Witness ==
    /\ pc = "dropped"
    /\ result.kind = "LayoutFragment"
    /\ Len(result.glyphs) >= 2
    /\ hb_face.created = 1
    /\ hb_face.destroyed = 1

\* C6: with units_per_em = 0 the call (here on a non-empty text) fails before
\* any scaling arithmetic: no scale is computed and nothing is returned.
C6_ZeroUnitsPerEmGuard ==
    (units_per_em = 0 /\ text_len > 0) => pc \notin {"loop", "returned", "dropped"}

\* C7: when the font has no data, HbFace::new ends the call: nothing is
\* returned, no face handle and no transient font is created or released, and
\* hb_shape is never invoked.
C7_UnavailableFontData ==
    ~font_data_ok =>
        /\ pc \in PreFace \cup {"panicked"}
        /\ result.kind = None
        /\ hb_face = NoFace
        /\ hb_font = NoFont
        /\ shape_calls = 0
        /\ At("face_create") \cup At("font_create") \cup At("shape") = {}
        /\ At("face_destroy") \cup At("font_destroy") = {}

\* The call has been aborted by HbFace::new.
C7_Witness ==
    /\ pc = "panicked"
    /\ ~font_data_ok
    /\ b.state = "destroyed"

IsPow2(n) == n > 0 /\ Pow2(BitLen(n) - 1) = n

\* The finite f32 values next to a positive finite a.
F32Up(a) ==
    IF a.m + 1 = MantLimit THEN [a EXCEPT !.m = Hidden, !.e = a.e + 1]
    ELSE [a EXCEPT !.m = a.m + 1]

F32Down(a) ==
    IF a.m = Hidden THEN [a EXCEPT !.m = MantLimit - 1, !.e = a.e - 1]
    ELSE [a EXCEPT !.m = a.m - 1]

EmWide(pos) == pos.x_advance = units_per_em /\ pos.y_advance = 0

\* C8 as stated: with units_per_em = U > 0, a glyph whose raw advance is
\* (U, 0) gets the scaled advance (S, 0).
C8_EmAdvanceIsSize ==
    (units_per_em > 0 /\ entry = "layout_fragment") =>
        \A i \in 1..Len(Built) :
            EmWide(engine.positions[i]) =>
                Built[i].advance = [x |-> size, y |-> F32Zero(0)]

\* C8 (amended): with units_per_em = U > 0, every raw advance and offset
\* component v, on both axes and whatever the other glyphs are, becomes the
\* f32 product of v and the one scalar fl(S / U); the two roundings leave a
\* raw advance (U, 0) at (S', 0) with S' equal to S or to one of the two f32
\* values next to it, and equal to S when U is a power of two.
C8_ScaleCorrectness ==
    units_per_em > 0 =>
        LET sc == ClaimScale IN
        /\ entry = "layout_fragment" =>
              \A i \in 1..Len(Built) :
                  LET pos == engine.positions[i] IN
                  /\ Built[i].advance =
                        [x |-> F32Mul(ToF32(pos.x_advance), sc),
                         y |-> F32Mul(ToF32(pos.y_advance), sc)]
                  /\ EmWide(pos) =>
                        /\ Built[i].advance.y = F32Zero(0)
                        /\ Built[i].advance.x \in {size, F32Up(size), F32Down(size)}
                        /\ IsPow2(units_per_em) => Built[i].advance.x = size
        /\ Len(Built) >= 1 =>
              LET pos == engine.positions[1] IN
              Built[1].offset =
                  [x |-> F32Mul(ToF32(pos.x_offset), sc),
                   y |-> F32Mul(ToF32(pos.y_offset), sc)]
        /\ (Returned /\ Len(result.glyphs) = 1 /\ EmWide(engine.positions[1])) =>
              /\ result.advance.y = F32Zero(0)
              /\ result.advance.x \in {size, F32Up(size), F32Down(size)}
              /\ IsPow2(units_per_em) => result.advance.x = size

\* A returned fragment with an em-wide glyph whose scaled advance is the f32
\* value next to the size, not the size.
C8_Witness ==
    /\ pc = "returned"
    /\ result.kind = "LayoutFragment"
    /\ units_per_em > 0
    /\ \E i \in 1..Len(result.glyphs) :
          /\ EmWide(engine.positions[i])
          /\ result.glyphs[i].advance.x = F32Up(size)

\* C9: the output has min(n_info, n_pos) glyphs; glyph i carries info[i]'s
\* glyph id (and cluster) with pos[i]'s advance and offset; the entries read
\* from either array are exactly the first min(n_info, n_pos), each once and
\* in order.
C9_PairedExtraction ==
    LET n   == Min(Len(engine.infos), Len(engine.positions))
        sc  == ClaimScale
        pen == PenPositions(Len(Built), sc)
    IN
    /\ Len(Built) <= n
    /\ Returned => Len(result.glyphs) = n
    /\ reads.infos = 1..Len(Built)
    /\ reads.positions = 1..Len(Built)
    /\ Cardinality(At("read")) = Len(Built)
    /\ \A i \in 1..Len(Built) :
          /\ Built[i].glyph_id = engine.infos[i].codepoint
          /\ Built[i].offset = VecAdd(pen[i], OffsetF(engine.positions[i], sc))
          /\ entry = "layout_fragment" =>
                /\ Built[i].cluster = engine.infos[i].cluster
                /\ Built[i].advance = AdvF(engine.positions[i], sc)

\* A returned result of two glyphs cut from arrays of different reported
\* lengths.
C9_Witness ==
    /\ pc = "returned"
    /\ Len(result.glyphs) = 2
    /\ Len(engine.infos) # Len(engine.positions)
    /\ result.glyphs[1].glyph_id # result.glyphs[2].glyph_id

\* C10: hb_shape runs at most once, on a buffer whose text, direction, script
\* and language have been set; the transient font is created once, after the
\* face, is destroyed once, right after hb_shape and before any glyph array
\* is fetched or read; the face outlives the font and the whole extraction;
\* the arrays are fetched and read only while the buffer is alive.
C10_SessionOrdering ==
    LET Extraction == At("get_infos") \cup At("get_positions") \cup At("read") IN
    /\ shape_calls = Cardinality(At("shape"))
    /\ shape_calls <= 1
    /\ hb_font.created = Cardinality(At("font_create"))
    /\ hb_font.destroyed = Cardinality(At("font_destroy"))
    /\ hb_font.created <= 1
    /\ hb_font.destroyed <= hb_font.created
    /\ \A sh \in At("shape") :
          /\ \A ev \in {"add_str", "set_direction", "set_script", "set_language"} :
                \E i \in At(ev) : i < sh
          /\ b.text = text_len
          /\ b.direction = "LTR"
          /\ b.script = ScriptUsed
          /\ b.language = "en_US"
          /\ \E fc \in At("face_create") : \E ft \in At("font_create") :
                fc < ft /\ ft < sh
          /\ \A fd \in At("font_destroy") : fd = sh + 1
          /\ \A x \in Extraction : sh + 1 \in At("font_destroy") /\ sh + 1 < x
    /\ Extraction # {} => shape_calls = 1
    /\ \A d \in At("face_destroy") : \A x \in Extraction \cup At("font_destroy") : x < d
    /\ \A d \in At("buffer_destroy") : \A x \in Extraction : x < d
    /\ b.state = "destroyed" <=> At("buffer_destroy") # {}
    /\ pc \in {"get_infos", "get_positions", "loop_init", "loop"} =>
          /\ b.state = "alive"
          /\ hb_face.destroyed = 0
          /\ hb_font.destroyed = 1

\* A layout_run call that has returned after reading two glyphs: the font,
\* the face and the buffer have all been released, in that order.
C10_Witness ==
    /\ pc = "returned"
    /\ entry = "layout_run"
    /\ Cardinality(At("read")) = 2
    /\ hb_font.destroyed = 1
    /\ hb_face.destroyed = 1
    /\ b.state = "destroyed"
====
